---- MODULE Spec2Model ----
(***************************************************************************)
(* State-machine model of components/list/index.tsx (the List function     *)
(* component) and of components/config-provider (ConfigProvider), both     *)
(* held in src/components/list/index.tsx.                                  *)
(*                                                                         *)
(* List: one mounted instance.  Its state is the two useState cells        *)
(* (paginationCurrent, paginationSize); every action is one complete       *)
(* render pass with the props the parent hands in, or one pagination       *)
(* control event followed by the re-render that the state update causes.   *)
(* ConfigProvider: two nested instances (outer, inner); every action is a  *)
(* render of one of them, which re-renders what is below it.               *)
(***************************************************************************)
EXTENDS Integers, Sequences, FiniteSets, TLC

VARIABLES
  mounted,            \* the List instance has rendered and holds hook state
  props,              \* the props of the last render pass
  paginationCurrent,  \* useState cell, index.tsx:72
  paginationSize,     \* useState cell, index.tsx:75
  out,                \* what the last render pass produced
  prev,               \* history: the render pass before the last one
  seeds,              \* history: defaultCurrent/defaultPageSize given at mount
  lastEvent,          \* history: the most recent pagination control event
  handlerCalls,       \* history: caller handlers invoked by that event
  legacyLocale,       \* locale the LocaleReceiver hands the outer provider
  outerProps,         \* props of the outer ConfigProvider
  innerProps,         \* props of the inner ConfigProvider
  outerPub,           \* what the outer ConfigProvider publishes
  innerPub            \* what the inner ConfigProvider publishes

listVars == <<mounted, props, paginationCurrent, paginationSize, out, prev,
              seeds, lastEvent, handlerCalls>>
providerVars == <<legacyLocale, outerProps, innerProps, outerPub, innerPub>>
vars == <<mounted, props, paginationCurrent, paginationSize, out, prev,
          seeds, lastEvent, handlerCalls,
          legacyLocale, outerProps, innerProps, outerPub, innerPub>>

----------------------------------------------------------------------------
(* Bounds of the model. *)

MaxLen == 4       \* longest dataSource
MaxPage == 3      \* largest page number an event or the caller supplies
MaxSize == 2      \* largest page size an event or the caller supplies

Min(a, b) == IF a < b THEN a ELSE b
Max(a, b) == IF a > b THEN a ELSE b

----------------------------------------------------------------------------
(* JavaScript values.  A number is an integer, NaN or Infinity; a field    *)
(* of a configuration object may be absent.                                *)

Num(n) == [kind |-> "num", v |-> n]
NaN == [kind |-> "nan", v |-> 0]
Infinity == [kind |-> "inf", v |-> 0]
Absent == [kind |-> "absent", v |-> 0]

Has(x) == x.kind # "absent"

\* a || b for an optional integer field: an absent field and 0 are falsy
OrElse(x, d) == IF x.kind = "num" /\ x.v # 0 THEN x.v ELSE d

\* Math.ceil(a / b) for a number a >= 0 and a number b
MathCeilDiv(a, b) ==
  IF a.kind # "num" \/ b.kind # "num" THEN NaN
  ELSE IF b.v = 0 THEN (IF a.v = 0 THEN NaN ELSE Infinity)
  ELSE IF b.v > 0 THEN Num((a.v + b.v - 1) \div b.v)
  ELSE Num(-(a.v \div (-b.v)))

\* a > b for an integer a and a number b: false against NaN and Infinity
GreaterThan(a, b) == b.kind = "num" /\ a > b.v

\* a * b for an integer a and a number b (b is an integer or NaN here)
Times(a, b) == IF b.kind = "num" THEN Num(a * b.v) ELSE NaN

\* Array.prototype.splice(start, deleteCount) on a copy: the removed elements
Splice(s, start, deleteCount) ==
  LET len == Len(s)
      actualStart == IF start < 0 THEN Max(len + start, 0) ELSE Min(start, len)
      actualCount == Min(Max(deleteCount, 0), len - actualStart)
  IN SubSeq(s, actualStart + 1, actualStart + actualCount)

----------------------------------------------------------------------------
(* Items.  A field value 0 stands for an empty (falsy) value.  fk is the   *)
(* value the caller's rowKey function returns for the item.                *)

ItemAt(i) ==
  [uid |-> i,
   key |-> IF i % 4 \in {1, 3} THEN 10 + i ELSE 0,
   id  |-> IF i % 4 \in {1, 2} THEN 20 + i ELSE 0,
   fk  |-> IF i % 4 = 1 THEN 30 + i ELSE 0]

DataSourceOf(n) == [i \in 1..n |-> ItemAt(i)]

DataSources == {DataSourceOf(n) : n \in 0..MaxLen}

----------------------------------------------------------------------------
(* Props of List (ListProps, index.tsx:33-54).                             *)

\* pagination: false
NoPagination ==
  [enabled |-> FALSE, current |-> Absent, pageSize |-> Absent, total |-> Absent,
   defaultCurrent |-> Absent, defaultPageSize |-> Absent,
   onChange |-> FALSE, onShowSizeChange |-> FALSE]

\* pagination: {} (every field absent)
EmptyPagination == [NoPagination EXCEPT !.enabled = TRUE]

\* rowKey: absent, a field name, or a function of the item
RowKeys == {"none", "string", "function"}

\* loading: a boolean, or a SpinProps record with a spinning flag
Loadings == [isBool : BOOLEAN, spinning : BOOLEAN]

\* List.defaultProps
DefaultProps ==
  [dataSource |-> <<>>, pagination |-> NoPagination, rowKey |-> "none",
   renderItem |-> TRUE, loading |-> [isBool |-> TRUE, spinning |-> FALSE],
   children |-> FALSE, grid |-> FALSE]

----------------------------------------------------------------------------
(* The render pass of List.                                                *)

DefaultCurrent == 1
DefaultPageSize == 10

\* const paginationObj = pagination && typeof pagination === 'object' ? pagination : {}
\* useState(paginationObj.defaultCurrent || 1), useState(paginationObj.defaultPageSize || 10)
SeedCurrent(pagination) == OrElse(pagination.defaultCurrent, DefaultCurrent)
SeedSize(pagination) == OrElse(pagination.defaultPageSize, DefaultPageSize)

\* React.useState: the initial value counts on the first render only
UseStateReseeds(isMounted, stored, initial) == initial
UseState(isMounted, stored, initial) == IF isMounted THEN stored ELSE initial

\* { ...defaultPaginationProps, total: dataSource.length, current: paginationCurrent,
\*   pageSize: paginationSize, ...(pagination || {}) }
MergedPaginationProps(p, cur, size) ==
  LET cfg == p.pagination
  IN [current  |-> IF Has(cfg.current) THEN cfg.current.v ELSE cur,
      pageSize |-> IF Has(cfg.pageSize) THEN cfg.pageSize ELSE Num(size),
      total    |-> IF Has(cfg.total) THEN cfg.total ELSE Num(Len(p.dataSource))]

\* const largestPage = Math.ceil(paginationProps.total / paginationProps.pageSize)
LargestPage(merged) == MathCeilDiv(merged.total, merged.pageSize)

\* if (paginationProps.current > largestPage) paginationProps.current = largestPage
ClampedCurrent(merged) ==
  IF GreaterThan(merged.current, LargestPage(merged))
  THEN LargestPage(merged).v
  ELSE merged.current

\* let splitDataSource = [...dataSource]; if (pagination) { if (length > start) splice }
SplitDataSource(p, current, pageSize) ==
  IF ~p.pagination.enabled THEN p.dataSource
  ELSE LET start == Times(current - 1, pageSize)
       IN IF start.kind = "num" /\ Len(p.dataSource) > start.v
          THEN Splice(p.dataSource, start.v, pageSize.v)
          ELSE p.dataSource

\* the key renderItem stores in keys[index]
OwnKey(v) == [synthetic |-> FALSE, v |-> v]
SyntheticKey(index) == [synthetic |-> TRUE, v |-> index]
\* keys[index] of a slot renderItem left without storing a key
NoKey == [synthetic |-> FALSE, v |-> 0]

KeyFallsThrough(p, item, index) ==
  IF p.rowKey = "function" /\ item.fk # 0 THEN OwnKey(item.fk)
  ELSE IF p.rowKey = "string" /\ item.id # 0 THEN OwnKey(item.id)
  ELSE IF item.key # 0 THEN OwnKey(item.key)
  ELSE SyntheticKey(index)
KeyOf(p, item, index) ==
  LET key == CASE p.rowKey = "function" -> item.fk
               [] p.rowKey = "string" -> item.id
               [] OTHER -> item.key
  IN IF key = 0 THEN SyntheticKey(index) ELSE OwnKey(key)

\* renderItem(item, index): null without props.renderItem, else the caller's node
renderItem(p, item, index) ==
  IF ~p.renderItem
  THEN [isNull |-> TRUE, uid |-> 0, index |-> index, key |-> NoKey]
  ELSE [isNull |-> FALSE, uid |-> item.uid, index |-> index, key |-> KeyOf(p, item, index)]

\* splitDataSource.map((item, index) => renderItem(item, index))
Items(p, slice) == [i \in 1..Len(slice) |-> renderItem(p, slice[i], i - 1)]

\* React.Children.forEach(items, child => childrenList.push(React.cloneElement(child, ...)))
\* calls back with null for a null child, and React.cloneElement(null) throws
CloneThrows(items) == \E i \in 1..Len(items) : items[i].isNull

\* const isLoading = loadingProp && loadingProp.spinning
IsLoading(p) == p.loading.spinning

\* childrenContent, index.tsx:221-242
BodyPlaceholderWins(p, slice) ==
  IF IsLoading(p) THEN "placeholder"
  ELSE IF Len(slice) > 0 THEN (IF p.grid THEN "grid" ELSE "list")
  ELSE IF ~p.children THEN "empty"
  ELSE "none"
ChildrenContent(p, slice) ==
  IF Len(slice) > 0 THEN (IF p.grid THEN "grid" ELSE "list")
  ELSE IF ~p.children /\ ~IsLoading(p) THEN "empty"
  ELSE IF IsLoading(p) THEN "placeholder"
  ELSE "none"

\* One render pass of List with props p and hook state (cur, size)
RenderPass(p, cur, size) ==
  LET merged == MergedPaginationProps(p, cur, size)
      current == ClampedCurrent(merged)
      slice == SplitDataSource(p, current, merged.pageSize)
      items == Items(p, slice)
      threw == Len(slice) > 0 /\ CloneThrows(items)
  IN [status |-> IF threw THEN "error" ELSE "ok",
      merged |-> merged,
      largestPage |-> LargestPage(merged),
      current |-> current,
      pageSize |-> merged.pageSize,
      paginationContent |-> p.pagination.enabled,
      splitDataSource |-> slice,
      dataSourceAfter |-> p.dataSource,
      nodes |-> IF threw THEN <<>> ELSE items,
      body |-> IF threw THEN "none" ELSE ChildrenContent(p, slice),
      children |-> ~threw /\ p.children,
      isLoading |-> IsLoading(p)]

----------------------------------------------------------------------------
(* What the caller may put in the pagination configuration.                *)

CallerCurrents == {Absent} \cup {Num(c) : c \in 0..MaxPage}
CallerPageSizes == {Absent, NaN, Num(-1)} \cup {Num(z) : z \in 0..MaxSize}
CallerTotals == {Absent, Num(1)}
CallerDefaultCurrents == {Absent, Num(0), Num(MaxPage)}
CallerDefaultPageSizes == {Absent, Num(MaxSize)}

\* what the pagination control hands its change callbacks
EventPages == 1..MaxPage
EventSizes == 1..MaxSize
EventNames == {"onChange", "onShowSizeChange"}

NoEvent == [name |-> "none", page |-> 0, pageSize |-> 0, handler |-> FALSE]
NoOut == RenderPass(DefaultProps, DefaultCurrent, DefaultPageSize)
NoPrev == [rendered |-> FALSE, isLoading |-> FALSE]
NoSeeds == [defaultCurrent |-> Absent, defaultPageSize |-> Absent]

----------------------------------------------------------------------------
(* The List state machine.                                                 *)

ListInit ==
  /\ mounted = FALSE
  /\ props = DefaultProps
  /\ paginationCurrent = DefaultCurrent
  /\ paginationSize = DefaultPageSize
  /\ out = NoOut
  /\ prev = NoPrev
  /\ seeds = NoSeeds
  /\ lastEvent = NoEvent
  /\ handlerCalls = <<>>

\* A render pass with props np and hook state (cur, size).  A render that
\* throws unmounts the instance; its hook state is gone with it.
Commit(np, cur, size) ==
  /\ props' = np
  /\ out' = RenderPass(np, cur, size)
  /\ mounted' = (out'.status = "ok")
  /\ prev' = [rendered |-> mounted, isLoading |-> mounted /\ out.isLoading]
  /\ UNCHANGED providerVars

\* The parent renders List with props np: the first render seeds the hook
\* state, a later one reads it back.
Render(np) ==
  LET cur == UseState(mounted, paginationCurrent, SeedCurrent(np.pagination))
      size == UseState(mounted, paginationSize, SeedSize(np.pagination))
  IN /\ paginationCurrent' = cur
     /\ paginationSize' = size
     /\ Commit(np, cur, size)
     /\ IF mounted
        THEN UNCHANGED <<seeds, lastEvent, handlerCalls>>
        ELSE /\ seeds' = [defaultCurrent |-> np.pagination.defaultCurrent,
                          defaultPageSize |-> np.pagination.defaultPageSize]
             /\ lastEvent' = NoEvent
             /\ handlerCalls' = <<>>

\* The hook state in effect while the caller's handler runs: index.tsx:88-89
\* come before index.tsx:90-92
HandlerBeforeSetState(cur, size, page, pageSize) == [current |-> cur, pageSize |-> size]
StateSeenByHandler(cur, size, page, pageSize) == [current |-> page, pageSize |-> pageSize]

\* if (pagination && pagination[eventName]) pagination[eventName](page, pageSize)
CallerHandlerCalls(p, eventName, seen, page, pageSize) ==
  IF p.pagination.enabled /\ p.pagination[eventName]
  THEN <<[name |-> eventName, page |-> page, pageSize |-> pageSize, seen |-> seen]>>
  ELSE <<>>

\* triggerPaginationEvent(eventName)(page, pageSize), and the re-render the
\* state update causes
triggerPaginationEvent(eventName, page, pageSize) ==
  /\ mounted
  /\ out.paginationContent
  /\ paginationCurrent' = page
  /\ paginationSize' = pageSize
  /\ handlerCalls' = CallerHandlerCalls(props, eventName,
         StateSeenByHandler(paginationCurrent, paginationSize, page, pageSize),
         page, pageSize)
  /\ lastEvent' = [name |-> eventName, page |-> page, pageSize |-> pageSize,
                   handler |-> props.pagination[eventName]]
  /\ Commit(props, page, pageSize)
  /\ UNCHANGED seeds


\* The parent re-renders List with one prop changed
SetDataSource(ds) ==
  mounted /\ Render([props EXCEPT !.dataSource = ds])

SetPagination(cfg) ==
  mounted /\ Render([props EXCEPT !.pagination = cfg])

SetPaginationCurrent(c) ==
  /\ mounted /\ props.pagination.enabled
  /\ Render([props EXCEPT !.pagination.current = c])

SetPaginationPageSize(z) ==
  /\ mounted /\ props.pagination.enabled
  /\ Render([props EXCEPT !.pagination.pageSize = z])

SetPaginationTotal(t) ==
  /\ mounted /\ props.pagination.enabled
  /\ Render([props EXCEPT !.pagination.total = t])

SetPaginationDefaults(dc, dz) ==
  /\ mounted /\ props.pagination.enabled
  /\ Render([props EXCEPT !.pagination.defaultCurrent = dc,
                          !.pagination.defaultPageSize = dz])

SetPaginationHandler(eventName, given) ==
  /\ mounted /\ props.pagination.enabled
  /\ Render([props EXCEPT !.pagination[eventName] = given])

SetRowKey(k) == mounted /\ Render([props EXCEPT !.rowKey = k])

SetRenderItem(given) == mounted /\ Render([props EXCEPT !.renderItem = given])

SetLoading(l) == mounted /\ Render([props EXCEPT !.loading = l])

SetChildren(given) == mounted /\ Render([props EXCEPT !.children = given])

SetGrid(given) == mounted /\ Render([props EXCEPT !.grid = given])

\* The first render
Mount(np) == ~mounted /\ Render(np)

----------------------------------------------------------------------------
(* Pagination and slicing: the caller's current, pageSize and total, the   *)
(* data and the control's events vary.                                     *)

SliceConfigs ==
  {NoPagination} \cup
  {[EmptyPagination EXCEPT !.current = c, !.pageSize = z, !.total = t] :
     c \in CallerCurrents, z \in CallerPageSizes, t \in CallerTotals}

Next ==
  \/ \E ds \in DataSources, cfg \in SliceConfigs :
       Mount([DefaultProps EXCEPT !.dataSource = ds, !.pagination = cfg])
  \/ \E ds \in DataSources : SetDataSource(ds)
  \/ \E cfg \in {NoPagination, EmptyPagination} : SetPagination(cfg)
  \/ \E c \in CallerCurrents : SetPaginationCurrent(c)
  \/ \E z \in CallerPageSizes : SetPaginationPageSize(z)
  \/ \E t \in CallerTotals : SetPaginationTotal(t)
  \/ \E e \in EventNames, page \in EventPages, pageSize \in EventSizes :
       triggerPaginationEvent(e, page, pageSize)

----------------------------------------------------------------------------
(* Pagination events: the seeds, the caller's handlers and overrides vary. *)

EventDataSources == {DataSourceOf(0), DataSourceOf(MaxLen)}

EventConfigs ==
  {NoPagination} \cup
  {[EmptyPagination EXCEPT !.defaultCurrent = dc, !.defaultPageSize = dz,
                           !.onChange = h1, !.onShowSizeChange = h2] :
     dc \in CallerDefaultCurrents, dz \in CallerDefaultPageSizes,
     h1 \in BOOLEAN, h2 \in BOOLEAN}

EventNext ==
  \/ \E ds \in EventDataSources, cfg \in EventConfigs :
       Mount([DefaultProps EXCEPT !.dataSource = ds, !.pagination = cfg])
  \/ \E ds \in EventDataSources : SetDataSource(ds)
  \/ \E cfg \in {NoPagination, EmptyPagination} : SetPagination(cfg)
  \/ \E c \in {Absent, Num(1)} : SetPaginationCurrent(c)
  \/ \E z \in {Absent, Num(1)} : SetPaginationPageSize(z)
  \/ \E dc \in CallerDefaultCurrents, dz \in CallerDefaultPageSizes :
       SetPaginationDefaults(dc, dz)
  \/ \E e \in EventNames, given \in BOOLEAN : SetPaginationHandler(e, given)
  \/ \E e \in EventNames, page \in EventPages, pageSize \in EventSizes :
       triggerPaginationEvent(e, page, pageSize)

----------------------------------------------------------------------------
(* Rendering: items, keys, body.  Pagination is off or has page size       *)
(* MaxSize, so that slice positions differ from dataSource positions.      *)

RenderPaginations == {NoPagination, [EmptyPagination EXCEPT !.pageSize = Num(MaxSize)]}

RenderNext ==
  \/ \E ds \in DataSources, cfg \in RenderPaginations, k \in RowKeys, r \in BOOLEAN :
       Mount([DefaultProps EXCEPT !.dataSource = ds, !.pagination = cfg,
                                  !.rowKey = k, !.renderItem = r])
  \/ \E ds \in DataSources : SetDataSource(ds)
  \/ \E k \in RowKeys : SetRowKey(k)
  \/ \E r \in BOOLEAN : SetRenderItem(r)
  \/ \E l \in Loadings : SetLoading(l)
  \/ \E c \in BOOLEAN : SetChildren(c)
  \/ \E g \in BOOLEAN : SetGrid(g)
  \/ \E page \in EventPages : triggerPaginationEvent("onChange", page, MaxSize)

----------------------------------------------------------------------------
(* ConfigProvider.                                                         *)
(* An unset prop is "" (a string prop) or a record with exist = FALSE.     *)

MessageKeys == {"required", "email"}
NoMessages == [k \in {} |-> ""]
Message1(k, m) == [x \in {k} |-> m]
Message2(m1, m2) == [x \in MessageKeys |-> IF x = "required" THEN m1 ELSE m2]

\* { ...a, ...b }
Spread(a, b) ==
  [k \in (DOMAIN a) \cup (DOMAIN b) |-> IF k \in DOMAIN b THEN b[k] ELSE a[k]]

\* Locale: locale.Form.defaultValidateMessages may be missing
NoLocale == [exist |-> FALSE, name |-> "", hasDefaults |-> FALSE, defaults |-> NoMessages]
Locales ==
  {NoLocale,
   [exist |-> TRUE, name |-> "plain", hasDefaults |-> FALSE, defaults |-> NoMessages],
   [exist |-> TRUE, name |-> "withForm", hasDefaults |-> TRUE,
    defaults |-> Message1("required", "R")]}

\* form: { validateMessages }
NoForm == [exist |-> FALSE, validateMessages |-> NoMessages]
Forms ==
  {NoForm,
   [exist |-> TRUE, validateMessages |-> Message1("email", "E")],
   [exist |-> TRUE, validateMessages |-> Message2("L2", "E")]}

Directions == {"", "ltr", "rtl"}
RenderEmptys == {"", "customEmpty"}

NoProviderProps ==
  [renderEmpty |-> "", direction |-> "", locale |-> NoLocale, form |-> NoForm]

\* The value of ConfigContext when no provider encloses the consumer
RootContext ==
  [renderEmpty |-> "defaultRenderEmpty", direction |-> "", locale |-> NoLocale]

\* locale || legacyLocale
ResolvedLocale(p, legacy) == IF p.locale.exist THEN p.locale ELSE legacy

\* if (renderEmpty) config.renderEmpty = renderEmpty
ConfigRenderEmpty(context, p) ==
  IF p.renderEmpty # "" THEN p.renderEmpty ELSE context.renderEmpty

\* direction, from the props, set or not
DirectionInherits(context, p) ==
  IF p.direction # "" THEN p.direction ELSE context.direction
ConfigDirection(context, p) == p.direction

\* the validateMessages of index.tsx:374-381
ValidateMessages(p, legacy) ==
  LET base == IF p.locale.exist /\ p.locale.hasDefaults
              THEN p.locale.defaults ELSE NoMessages
  IN IF p.form.exist THEN Spread(base, p.form.validateMessages) ELSE base

\* renderProvider(context, legacyLocale) of a provider with props p
renderProvider(context, legacy, p) ==
  [config |->
     [renderEmpty |-> ConfigRenderEmpty(context, p),
      direction |-> ConfigDirection(context, p),
      locale |-> ResolvedLocale(p, legacy)],
   validateMessages |-> ValidateMessages(p, legacy),
   formProvider |-> DOMAIN ValidateMessages(p, legacy) # {},
   localeProvider |-> ResolvedLocale(p, legacy)]

ProviderInit ==
  /\ legacyLocale = NoLocale
  /\ outerProps = NoProviderProps
  /\ innerProps = NoProviderProps
  /\ outerPub = renderProvider(RootContext, NoLocale, NoProviderProps)
  /\ innerPub = renderProvider(outerPub.config, outerPub.localeProvider, NoProviderProps)

\* render(): the outer provider consumes the root context and the legacy
\* locale; the inner one consumes what the outer one publishes, its
\* LocaleReceiver the locale of the outer one's LocaleProvider
Republish(legacy, po, pi) ==
  /\ legacyLocale' = legacy
  /\ outerProps' = po
  /\ innerProps' = pi
  /\ outerPub' = renderProvider(RootContext, legacy, po)
  /\ innerPub' = renderProvider(outerPub'.config, outerPub'.localeProvider, pi)
  /\ UNCHANGED listVars

\* An enclosing LocaleProvider changes the legacy locale
SetLegacyLocale(l) == Republish(l, outerProps, innerProps)

\* The outer provider is rendered with one prop changed
RenderOuterDirection(d) ==
  Republish(legacyLocale, [outerProps EXCEPT !.direction = d], innerProps)
RenderOuterLocale(l) ==
  Republish(legacyLocale, [outerProps EXCEPT !.locale = l], innerProps)
RenderOuterForm(f) ==
  Republish(legacyLocale, [outerProps EXCEPT !.form = f], innerProps)
RenderOuterRenderEmpty(re) ==
  Republish(legacyLocale, [outerProps EXCEPT !.renderEmpty = re], innerProps)

\* The inner provider is rendered with one prop changed
RenderInnerDirection(d) ==
  Republish(legacyLocale, outerProps, [innerProps EXCEPT !.direction = d])
RenderInnerLocale(l) ==
  Republish(legacyLocale, outerProps, [innerProps EXCEPT !.locale = l])
RenderInnerForm(f) ==
  Republish(legacyLocale, outerProps, [innerProps EXCEPT !.form = f])
RenderInnerRenderEmpty(re) ==
  Republish(legacyLocale, outerProps, [innerProps EXCEPT !.renderEmpty = re])

ProviderNext ==
  \/ \E l \in Locales : SetLegacyLocale(l)
  \/ \E d \in Directions : RenderOuterDirection(d)
  \/ \E l \in Locales : RenderOuterLocale(l)
  \/ \E f \in Forms : RenderOuterForm(f)
  \/ \E re \in RenderEmptys : RenderOuterRenderEmpty(re)
  \/ \E d \in Directions : RenderInnerDirection(d)
  \/ \E l \in Locales : RenderInnerLocale(l)
  \/ \E f \in Forms : RenderInnerForm(f)
  \/ \E re \in RenderEmptys : RenderInnerRenderEmpty(re)

----------------------------------------------------------------------------
(* Specifications.                                                         *)

Init == ListInit /\ ProviderInit

\* pagination and slicing of one List
Spec == Init /\ [][Next]_vars

\* pagination events of one List
EventSpec == Init /\ [][EventNext]_vars

\* item rendering of one List
RenderSpec == Init /\ [][RenderNext]_vars

\* two nested ConfigProviders
ProviderSpec == Init /\ [][ProviderNext]_vars

----------------------------------------------------------------------------
(* Properties.                                                             *)

\* ceil(n / p) for n >= 0 and p > 0
CeilOf(n, p) == IF n % p = 0 THEN n \div p ELSE (n \div p) + 1

\* the elements of s at the indices lo <= i < hi (0-based) that s has
Window(s, lo, hi) ==
  [j \in 1..Max(Min(hi, Len(s)) - Max(lo, 0), 0) |-> s[Max(lo, 0) + j]]

PositivePageSize == out.pageSize.kind = "num" /\ out.pageSize.v > 0

\* C1: with pagination enabled, a positive pageSize p and n items (the
\* caller not overriding total), a merged current above ceil(n/p) is
\* rendered as max(1, ceil(n/p)): 1, never 0, when n = 0.
C1_ClampedToAtLeastOne ==
  LET n == Len(props.dataSource)
      p == out.pageSize.v
  IN (/\ props.pagination.enabled
      /\ ~Has(props.pagination.total)
      /\ PositivePageSize
      /\ out.merged.current > CeilOf(n, p))
     => out.current = Max(1, CeilOf(n, p))

\* C2: with pagination enabled, a positive pageSize p and effective current
\* c over n items: if (c-1)*p < n the visible slice is the window of
\* dataSource at [(c-1)*p, min(c*p, n)), of length min(p, n-(c-1)*p);
\* otherwise it is the whole dataSource; dataSource is left as it was.
C2_SliceIsWindow ==
  LET n == Len(props.dataSource)
      p == out.pageSize.v
      c == out.current
  IN (props.pagination.enabled /\ PositivePageSize)
     => /\ IF (c - 1) * p < n
           THEN /\ out.splitDataSource = Window(props.dataSource, (c - 1) * p, Min(c * p, n))
                /\ Len(out.splitDataSource) = Min(p, n - (c - 1) * p)
           ELSE out.splitDataSource = props.dataSource
        /\ out.dataSourceAfter = props.dataSource

\* C6: with pagination enabled and a caller pageSize that is zero, negative
\* or NaN, the render pass does not fail and shows the whole dataSource.
C6_InvalidPageSizeShowsAll ==
  LET z == props.pagination.pageSize
  IN (/\ props.pagination.enabled
      /\ Has(z)
      /\ (z.kind = "nan" \/ z.v <= 0))
     => /\ out.status = "ok"
        /\ out.splitDataSource = props.dataSource

\* The seeds of the hook state: defaultCurrent or 1, defaultPageSize or 10
SeededCurrent ==
  IF seeds.defaultCurrent.kind = "num" /\ seeds.defaultCurrent.v # 0
  THEN seeds.defaultCurrent.v ELSE 1
SeededSize ==
  IF seeds.defaultPageSize.kind = "num" /\ seeds.defaultPageSize.v # 0
  THEN seeds.defaultPageSize.v ELSE 10

\* C3: on a pagination control event (page, pageSize) the hook state is set
\* to (page, pageSize) before the caller's handler of the same name runs;
\* the handler runs exactly once, with (page, pageSize), and the state it
\* finds is the state the next render reads.
C3_StateSetBeforeHandler ==
  (mounted /\ lastEvent.name # "none")
  => /\ paginationCurrent = lastEvent.page
     /\ paginationSize = lastEvent.pageSize
     /\ IF lastEvent.handler
        THEN /\ Len(handlerCalls) = 1
             /\ handlerCalls[1].name = lastEvent.name
             /\ handlerCalls[1].page = lastEvent.page
             /\ handlerCalls[1].pageSize = lastEvent.pageSize
             /\ handlerCalls[1].seen = [current |-> lastEvent.page,
                                        pageSize |-> lastEvent.pageSize]
             /\ handlerCalls[1].seen = [current |-> paginationCurrent,
                                        pageSize |-> paginationSize]
        ELSE handlerCalls = <<>>

\* an event with a handler has changed the page the state was seeded with
C3_Witness ==
  /\ mounted
  /\ lastEvent.name = "onShowSizeChange"
  /\ lastEvent.handler
  /\ Len(handlerCalls) = 1
  /\ lastEvent.page # SeededCurrent
  /\ lastEvent.pageSize # SeededSize

\* C10: the hook state is (page, pageSize) of the most recent event, or the
\* seeds of the first render if there was none: no render, clamp, data or
\* configuration change alters it; and a render without a caller current
\* (pageSize) merges exactly that value, before clamping.
C10_StateFollowsEventsOnly ==
  LET cur == IF lastEvent.name = "none" THEN SeededCurrent ELSE lastEvent.page
      size == IF lastEvent.name = "none" THEN SeededSize ELSE lastEvent.pageSize
  IN mounted
     => /\ paginationCurrent = cur
        /\ paginationSize = size
        /\ (props.pagination.enabled /\ ~Has(props.pagination.current))
              => out.merged.current = cur
        /\ (props.pagination.enabled /\ ~Has(props.pagination.pageSize))
              => out.merged.pageSize = Num(size)

\* after an event, a later render without caller overrides has clamped the
\* page it merged, and the state still holds the event's page
C10_Witness ==
  /\ mounted
  /\ prev.rendered
  /\ lastEvent.name # "none"
  /\ props.pagination.enabled
  /\ ~Has(props.pagination.current)
  /\ ~Has(props.pagination.pageSize)
  /\ out.current # out.merged.current
  /\ paginationCurrent = lastEvent.page
  /\ paginationCurrent # SeededCurrent

\* the key the specified chain gives: the first non-empty of the rowKey
\* function's result, the field a string rowKey names, the item's key, and
\* the synthetic key of the slice position
ChainKey(item, index) ==
  IF props.rowKey = "function" /\ item.fk # 0 THEN OwnKey(item.fk)
  ELSE IF props.rowKey = "string" /\ item.id # 0 THEN OwnKey(item.id)
  ELSE IF item.key # 0 THEN OwnKey(item.key)
  ELSE SyntheticKey(index)

Rendered == mounted /\ out.status = "ok"

\* C4: the key of the node at slice index i is the first non-empty result
\* of the chain rowKey function, rowKey field, item.key, 'list-item-<i>'.
C4_KeyIsFirstNonEmptyOfChain ==
  Rendered =>
    \A i \in 1..Len(out.nodes) :
      out.nodes[i].key = ChainKey(out.splitDataSource[i], i - 1)

\* C4 as the code has it: the kind of rowKey selects one source (a
\* function rowKey its result, a string rowKey the field it names, no
\* rowKey the item's key); if that one value is empty the key is
\* 'list-item-<i>', i the slice index, whatever the item's other fields
\* hold.  The key is on the node and the item is the dataSource's item.
C4_KeyIsSelectedByRowKeyKind ==
  Rendered =>
    /\ Len(out.nodes) = Len(out.splitDataSource)
    /\ \A i \in 1..Len(out.nodes) :
         LET item == out.splitDataSource[i]
             node == out.nodes[i]
         IN /\ node.index = i - 1
            /\ node.uid = item.uid
            /\ item = ItemAt(item.uid)
            /\ (props.rowKey = "function" /\ item.fk # 0) => node.key = OwnKey(item.fk)
            /\ (props.rowKey = "function" /\ item.fk = 0) => node.key = SyntheticKey(i - 1)
            /\ (props.rowKey = "string" /\ item.id # 0) => node.key = OwnKey(item.id)
            /\ (props.rowKey = "string" /\ item.id = 0) => node.key = SyntheticKey(i - 1)
            /\ (props.rowKey = "none" /\ item.key # 0) => node.key = OwnKey(item.key)
            /\ (props.rowKey = "none" /\ item.key = 0) => node.key = SyntheticKey(i - 1)

\* on the second page, an item with a key field and an empty rowKey
\* function result is rendered under the synthetic key of its slice position
C4_Witness ==
  /\ Rendered
  /\ props.rowKey = "function"
  /\ props.pagination.enabled
  /\ out.current = 2
  /\ \E i \in 1..Len(out.nodes) :
       /\ out.splitDataSource[i].fk = 0
       /\ out.splitDataSource[i].key # 0
       /\ out.nodes[i].key = SyntheticKey(i - 1)
       /\ out.splitDataSource[i].uid # i

\* C5: without renderItem and with a non-empty visible slice the render
\* pass raises no error and produces no item nodes.
C5_MissingRenderItemIsSilent ==
  (~props.renderItem /\ Len(out.splitDataSource) > 0)
  => /\ out.status = "ok"
     /\ out.nodes = <<>>

LoadingTurnedOn ==
  /\ Rendered
  /\ prev.rendered
  /\ ~prev.isLoading
  /\ out.isLoading
  /\ Len(out.splitDataSource) > 0

\* C7: when loading turns from false to true between two renders and the
\* visible slice is non-empty, the body is the fixed-height placeholder and
\* the caller's children are still rendered inside the loading wrapper.
C7_LoadingShowsPlaceholder ==
  LoadingTurnedOn
  => /\ out.body = "placeholder"
     /\ out.children = props.children

\* C7 as the code has it: the body stays the item list (the grid row or
\* the linear list); the placeholder is the body only when loading with an
\* empty visible slice; the caller's children are rendered in every case.
C7_LoadingKeepsItems ==
  /\ LoadingTurnedOn
     => /\ out.body = (IF props.grid THEN "grid" ELSE "list")
        /\ out.children = props.children
  /\ Rendered
     => /\ (out.body = "placeholder")
           <=> (out.isLoading /\ Len(out.splitDataSource) = 0)
        /\ out.children = props.children

\* loading has turned on over a non-empty slice with children present
C7_Witness ==
  /\ LoadingTurnedOn
  /\ props.children
  /\ out.children
  /\ out.body = "list"
  /\ Len(out.nodes) > 1

\* C8: under the inner provider the direction is the inner provider's if it
\* sets one, else the outer provider's; under the outer provider alone it
\* is the outer provider's.
C8_DirectionInherited ==
  /\ innerPub.config.direction =
       (IF innerProps.direction # "" THEN innerProps.direction
        ELSE outerPub.config.direction)
  /\ outerPub.config.direction = outerProps.direction

\* C8 as the code has it: under the inner provider the direction is the
\* inner provider's own prop, unset when it sets none, whatever the outer
\* provider sets; under the outer provider alone it is the outer one's.
\* renderEmpty, by contrast, is inherited when unset.
C8_DirectionIsOwnProp ==
  /\ innerPub.config.direction = innerProps.direction
  /\ outerPub.config.direction = outerProps.direction
  /\ innerProps.renderEmpty = "" => innerPub.config.renderEmpty = outerPub.config.renderEmpty

\* outer 'rtl', inner unset: unset under the inner provider
C8_Witness ==
  /\ outerProps.direction = "rtl"
  /\ outerPub.config.direction = "rtl"
  /\ innerProps.direction = ""
  /\ innerPub.config.direction = ""
  /\ outerProps.renderEmpty = "customEmpty"
  /\ innerPub.config.renderEmpty = "customEmpty"

\* the specified messages of a provider: the defaults of its resolved locale
\* overlaid by its own form messages
SpecifiedMessages(p, legacy) ==
  LET l == IF p.locale.exist THEN p.locale ELSE legacy
      base == IF l.exist /\ l.hasDefaults THEN l.defaults ELSE NoMessages
  IN IF p.form.exist
     THEN [k \in (DOMAIN base) \cup (DOMAIN p.form.validateMessages) |->
             IF k \in DOMAIN p.form.validateMessages
             THEN p.form.validateMessages[k] ELSE base[k]]
     ELSE base

\* C9: a provider publishes the default messages of its resolved locale
\* (its own locale, else the legacy one) overlaid by its own form messages,
\* and wraps its children in the form provider exactly when they are not
\* empty.
C9_MessagesOfResolvedLocale ==
  /\ outerPub.validateMessages = SpecifiedMessages(outerProps, legacyLocale)
  /\ outerPub.formProvider <=> (DOMAIN outerPub.validateMessages # {})
  /\ innerPub.validateMessages = SpecifiedMessages(innerProps, outerPub.localeProvider)
  /\ innerPub.formProvider <=> (DOMAIN innerPub.validateMessages # {})

----------------------------------------------------------------------------
(* Where the refuted statements do hold.                                   *)

\* The clamp of C1 is right whenever the dataSource is not empty.
ClampedWhenNotEmpty ==
  LET n == Len(props.dataSource)
      p == out.pageSize.v
  IN (/\ props.pagination.enabled
      /\ ~Has(props.pagination.total)
      /\ PositivePageSize
      /\ n > 0
      /\ out.merged.current > CeilOf(n, p))
     => out.current = CeilOf(n, p)

\* The slice of C2 is right whenever the effective current is at least 1.
SliceIsWindowFromPageOne ==
  LET n == Len(props.dataSource)
      p == out.pageSize.v
      c == out.current
  IN (props.pagination.enabled /\ PositivePageSize /\ c >= 1)
     => /\ IF (c - 1) * p < n
           THEN /\ out.splitDataSource = Window(props.dataSource, (c - 1) * p, Min(c * p, n))
                /\ Len(out.splitDataSource) = Min(p, n - (c - 1) * p)
           ELSE out.splitDataSource = props.dataSource
        /\ out.dataSourceAfter = props.dataSource

\* The fallback of C6 is right for a NaN pageSize, and for a negative one
\* when the caller does not override total.
InvalidPageSizeShowsAllUnlessZero ==
  LET z == props.pagination.pageSize
  IN (/\ props.pagination.enabled
      /\ Has(z)
      /\ (z.kind = "nan" \/ (z.v < 0 /\ ~Has(props.pagination.total))))
     => /\ out.status = "ok"
        /\ out.splitDataSource = props.dataSource

\* The messages of C9 are right for a provider that is given a locale.
MessagesOfOwnLocale ==
  /\ outerProps.locale.exist
     => outerPub.validateMessages = SpecifiedMessages(outerProps, legacyLocale)
  /\ innerProps.locale.exist
     => innerPub.validateMessages = SpecifiedMessages(innerProps, outerPub.localeProvider)
  /\ outerPub.formProvider <=> (DOMAIN outerPub.validateMessages # {})
  /\ innerPub.formProvider <=> (DOMAIN innerPub.validateMessages # {})

====
